---- MODULE Spec2Model ----
(***************************************************************************)
(* Model of the simulator package: prob.py (probNormalize, rollVal),       *)
(* signals.py (composeSignals, integrateSignal, integrateSignalRelative,   *)
(* rollDoubleOverlap) and util.py (tasks, parallelRunner, runInParallel,   *)
(* bulkRunnerHelper, runInParallelBulk).                                   *)
(*                                                                         *)
(* Numbers.  Abscissae, ordinates and amplitudes passed by a caller are    *)
(* integers.  A normalized density table P/PInt is kept as integer         *)
(* numerators over one common denominator; a value computed by rollVal is  *)
(* an exact fraction [n, d].  A uniform draw is a fraction with a fixed    *)
(* denominator (DrawRes subdivisions of [0, 1) for rollVal, halves for the *)
(* offset draw).  Floating point rounding is not modelled.                 *)
(*                                                                         *)
(* Arrays.  numpy arrays are objects of a heap: heap[a] is the content of  *)
(* the array at address a, a signal is a pair of addresses <<X, Y>>.       *)
(***************************************************************************)
EXTENDS Integers, Sequences, FiniteSets, TLC

VARIABLES
    heap,      \* numeric core: the arrays alive in the interpreter
    signal,    \* numeric core: the signal template, a pair of addresses
    dist,      \* numeric core: the amplitude distribution [E, P, den]
    loaded,    \* numeric core: content of the template/distribution arrays when loaded
    call,      \* numeric core: the call in progress / just returned (a record)
    ret,       \* numeric core: what that call returned or raised
    tasks,     \* util.py: the global task queue of the parent process
    entropy,   \* util.py: number of OS entropy draws made so far
    ncalls,    \* util.py: number of runInParallelBulk calls made so far
    pool,      \* util.py: the pool of the call in progress (or "none")
    result,    \* util.py: what the last runInParallelBulk call returned or raised
    thr        \* util.py: caller threads inside runInParallel (interleaved model)

vars == <<heap, signal, dist, loaded, call, ret, tasks, entropy, ncalls, pool, result, thr>>
numVars == <<heap, signal, dist, loaded, call, ret>>
utilVars == <<tasks, entropy, ncalls, pool, result, thr>>

----------------------------------------------------------------------------
(* Bounds of the model *)

\* Number of grid positions a signal's abscissa is drawn from.
MaxLen == 3
\* Largest number of points of a distribution table.
MaxDistLen == 2
\* Subdivisions of [0, 1) for the uniform draw of rollVal.
DrawRes == 4

\* Largest number of units (bulkNum) of a bulk run.
MaxUnits == 2
\* Largest number of kernel evaluations per unit (bulkSize).
MaxBulk == 2
\* Largest pool size.
MaxPool == 2
\* Number of runInParallelBulk calls followed.
MaxCalls == 1
\* Number of threads calling runInParallel at once (interleaved model).
RaceThreads == 2

(* Program constants *)

\* runInParallel: while len(tasks) > 10
TrimLen == 10

\* rollDoubleOverlap: np.random.uniform(0, 43)
OffsetRange == 43
\* integrateSignalRelative: center = 9
Center == 9

\* First grid position of a signal of the model (the grid covers Center).
GridLo == Center - 1
GridX == GridLo..(GridLo + MaxLen - 1)
\* Ordinates of a signal of the model.
Ordinates == 0..1
\* Offsets and amplitudes a caller passes to composeSignals.
Offsets == (0 - MaxLen)..MaxLen
Amps == {1, 2}
\* Integration bounds relative to the center.
RelOffs == 0..1
\* Raw density values of a distribution table.
Densities == 0..1
\* Abscissae of a distribution table.
DistE == 0..(MaxDistLen - 1)

----------------------------------------------------------------------------
(* Sequences *)

Range(s) == {s[i] : i \in 1..Len(s)}

\* Strictly increasing sequences over S with lengths in lo..hi.
IncSeqs(S, lo, hi) ==
    {s \in UNION {[1..n -> S] : n \in lo..hi} :
        \A i \in 1..(Len(s) - 1) : s[i] < s[i + 1]}

SeqsOf(S, lo, hi) == UNION {[1..n -> S] : n \in lo..hi}

RECURSIVE SumSeq(_)
SumSeq(s) == IF s = <<>> THEN 0 ELSE s[1] + SumSeq(Tail(s))

SetMin(S) == CHOOSE x \in S : \A y \in S : x <= y
SetMax(S) == CHOOSE x \in S : \A y \in S : x >= y

\* np.where(arr == v)[0][0]: the first index holding v.
FirstIndex(arr, v) == SetMin({i \in 1..Len(arr) : arr[i] = v})

----------------------------------------------------------------------------
(* prob.py *)

\* probNormalize(E, P): PInt accumulates (P[i] + P[i+1]) * (E[i+1] - E[i]) / 2
\* for i in range(len(E) - 1); the result is P / PInt.  The model keeps
\* 2 * PInt (an integer) and returns P / PInt as numerators 2 * P[i] over the
\* denominator 2 * PInt.  Reading P[i + 1] past the end of P raises
\* IndexError; nothing else raises: a zero PInt yields a table of inf / nan
\* (den = 0) with no error.
probNormalize(E, P) ==
    IF Len(E) >= 2 /\ Len(P) < Len(E)
    THEN [status |-> "IndexError", num |-> <<>>, den |-> 0]
    ELSE LET PInt2 == SumSeq([i \in 1..(IF Len(E) = 0 THEN 0 ELSE Len(E) - 1) |->
                                 (P[i] + P[i + 1]) * (E[i + 1] - E[i])])
         IN  [status |-> "ok",
              num    |-> [i \in 1..Len(P) |-> 2 * P[i]],
              den    |-> PInt2]

\* A fraction n / d; d = 0 marks a value that was never computed.
Frac(n, d) == [n |-> n, d |-> d]
NoFrac == Frac(0, 0)

\* rollVal, lines 30-34: the cumulative array.  PintArr[0] = 0 and
\* PintArr[i] = PintArr[i - 1] + P[i] * (E[i] - E[i - 1]); index i of the
\* code is index i + 1 here.
RECURSIVE PintArrOf(_, _, _)
PintArrOf(P, E, n) ==
    IF n = 0 THEN <<>>
    ELSE IF n = 1 THEN <<0>>
    ELSE LET prev == PintArrOf(P, E, n - 1)
         IN  Append(prev, prev[n - 1] + P[n] * (E[n] - E[n - 1]))

\* np.where(PintArr <= roll)[0] and np.where(PintArr >= roll)[0].  PintArr is
\* in units of 1 / den and roll in units of 1 / DrawRes: both sides are
\* compared in units of 1 / (den * DrawRes).
LowerIdxs(PintArr, den, roll) ==
    {i \in 1..Len(PintArr) : PintArr[i] * DrawRes <= roll * den}
UpperIdxs(PintArr, den, roll) ==
    {i \in 1..Len(PintArr) : PintArr[i] * DrawRes >= roll * den}

\* What indexing an empty index array does: IndexError where bounds are
\* checked, an out-of-bounds read in the compiled build.
EmptyIndexOutcomes == {"IndexError", "undefined"}
\* What a zero divisor does: ZeroDivisionError in the compiled build, nan
\* (with a warning) for numpy scalars.
ZeroDivOutcomes == {"ZeroDivisionError", "nan"}

RollOutcome(h, status, val, lo, hi, t) ==
    [heap |-> h, status |-> status, val |-> val, lo |-> lo, hi |-> hi, t |-> t]

\* rollVal(P, E) with the uniform draw roll / DrawRes made explicit.  P and E
\* are addresses, the density is h[P] / den; PintArr is a new array.  The
\* result is the set of outcomes the call can have.
rollVal(h, P, E, den, roll) ==
    LET PintArr == PintArrOf(h[P], h[E], Len(h[P]))
        h1      == Append(h, PintArr)
        lower   == LowerIdxs(PintArr, den, roll)
        upper   == UpperIdxs(PintArr, den, roll)
    IN  IF lower = {} \/ upper = {}
        THEN {RollOutcome(h1, s, NoFrac, 0, 0, NoFrac) : s \in EmptyIndexOutcomes}
        ELSE LET lowerIdx == SetMax(lower)
                 upperIdx == SetMin(upper)
                 tn == roll * den - PintArr[lowerIdx] * DrawRes
                 td == PintArr[upperIdx] * DrawRes - PintArr[lowerIdx] * DrawRes
             IN  IF td = 0
                 THEN {RollOutcome(h1, s, NoFrac, lowerIdx, upperIdx, NoFrac) :
                          s \in ZeroDivOutcomes}
                 ELSE {RollOutcome(h1, "ok",
                          Frac(h[E][lowerIdx] * td + tn * (h[E][upperIdx] - h[E][lowerIdx]), td),
                          lowerIdx, upperIdx, Frac(tn, td))}

----------------------------------------------------------------------------
(* signals.py *)

\* arr.copy(): a new array with the same content, at address Len(h) + 1.
ArrayCopy(h, a) == Append(h, h[a])
\* arr * k: a new array.
ArrayTimes(h, a, k) == Append(h, [i \in 1..Len(h[a]) |-> h[a][i] * k])

\* Line 29 with the copies dropped and the scaling done in place.
signalCopyInPlace(h, signal1, amp1) ==
    [heap |-> [h EXCEPT ![signal1[2]] = [i \in 1..Len(@) |-> @[i] * amp1]],
     sig  |-> signal1]

\* composeSignals, line 29:
\*   signal = ( signal1[0].copy(), signal1[1].copy() * amp1 )
signalCopy(h, signal1, amp1) ==
    LET h1 == ArrayCopy(h, signal1[1])
        h2 == ArrayCopy(h1, signal1[2])
        h3 == ArrayTimes(h2, Len(h2), amp1)
    IN  [heap |-> h3, sig |-> <<Len(h1), Len(h3)>>]

\* Line 33: E1 in signal1[0]
InGrid(X1, E1) == \E i \in 1..Len(X1) : X1[i] = E1

\* Line 36 with `or` for `and`.
InRangeEither(X1, E1) == E1 >= SetMin(Range(X1)) \/ E1 <= SetMax(Range(X1))

\* Line 36: E1 >= np.min(signal1[0]) and E1 <= np.max(signal1[0])
InRange(X1, E1) == E1 >= SetMin(Range(X1)) /\ E1 <= SetMax(Range(X1))

\* Line 35 with the contribution stored instead of added.
composeStore(h, sig, index1, v) == [h EXCEPT ![sig[2]][index1] = v]

\* Line 35: signal[1][index1] += signal2[1][index2] * amp2
composeAdd(h, sig, index1, v) == [h EXCEPT ![sig[2]][index1] = @ + v]

\* Lines 30-37: the loop over signal2[0], from its k-th element on.
RECURSIVE composeLoop(_, _, _, _, _, _, _)
composeLoop(h, sig, signal1, signal2, offset, amp2, k) ==
    IF k > Len(h[signal2[1]])
    THEN [heap |-> h, status |-> "ok", sig |-> sig]
    ELSE LET E2     == h[signal2[1]][k]
             index2 == FirstIndex(h[signal2[1]], E2)
             E1     == E2 + offset
         IN  IF InGrid(h[signal1[1]], E1)
             THEN LET index1 == FirstIndex(h[sig[1]], E1)
                  IN  composeLoop(composeAdd(h, sig, index1, h[signal2[2]][index2] * amp2),
                                  sig, signal1, signal2, offset, amp2, k + 1)
             ELSE IF InRange(h[signal1[1]], E1)
             THEN [heap |-> h, status |-> "RuntimeError", sig |-> <<0, 0>>]
             ELSE composeLoop(h, sig, signal1, signal2, offset, amp2, k + 1)

\* composeSignals(signal1, signal2, offset, amp1, amp2)
composeSignals(h, signal1, signal2, offset, amp1, amp2) ==
    LET c == signalCopy(h, signal1, amp1)
    IN  composeLoop(c.heap, c.sig, signal1, signal2, offset, amp2, 1)

\* integrateSignal(signal, intFrom, intTo): the sum of the ordinates selected
\* by the mask (signal[0] >= intFrom) & (signal[0] <= intTo).
integrateSignal(h, sig, intFrom, intTo) ==
    SumSeq([i \in 1..Len(h[sig[1]]) |->
              IF h[sig[1]][i] >= intFrom /\ h[sig[1]][i] <= intTo THEN h[sig[2]][i] ELSE 0])

\* integrateSignalRelative(signal, offsetLeft, offsetRight, center = 9)
integrateSignalRelative(h, sig, offsetLeft, offsetRight, center) ==
    integrateSignal(h, sig, center - offsetLeft, center + offsetRight)

\* Line 92: np.floor(np.random.uniform(0, 43)); the uniform draw is rOff / 2
\* (an integer, or an integer and a half) with rOff in 0..(2 * 43 - 1).
OffsetDraws == 0..(2 * OffsetRange - 1)
floorDraw(rOff) == rOff \div 2

RollRecord(h, status, rec) == [heap |-> h, status |-> status, rec |-> rec]

\* The outcomes of rollVal that end the call with an exception (or leave
\* the compiled code in an undefined state).
Raised == {"ZeroDivisionError", "IndexError", "undefined"}

\* A fraction standing for an amplitude in composeSignals; a nan amplitude
\* does not change which abscissae match, so 1 stands for it there.
AmpOf(a) == IF a.status = "ok" THEN a.val ELSE Frac(1, 1)

\* rollDoubleOverlap(P, E, signal, offsetLeft, offsetRight) with its three
\* uniform draws made explicit.  The amplitudes are fractions n1/d1 and
\* n2/d2; composeSignals is linear in them, so the model composes with the
\* numerators over the common denominator d1 * d2 and returns the integral
\* over that denominator.  The result is the set of outcomes: the record
\* <<offset, amp1, amp2, integral>>, the error raised, or "nan" for a record
\* holding nan.
rollDoubleOverlap(h, P, E, den, sig, offsetLeft, offsetRight, rOff, roll1, roll2) ==
    LET offset == floorDraw(rOff)
    IN  UNION {
          IF a1.status \in Raised
          THEN {RollRecord(a1.heap, a1.status, <<>>)}
          ELSE UNION {
            IF a2.status \in Raised
            THEN {RollRecord(a2.heap, a2.status, <<>>)}
            ELSE LET amp1 == AmpOf(a1)
                     amp2 == AmpOf(a2)
                     c == composeSignals(a2.heap, sig, sig, offset,
                                         amp1.n * amp2.d, amp2.n * amp1.d)
                 IN  IF c.status # "ok"
                     THEN {RollRecord(c.heap, c.status, <<>>)}
                     ELSE IF a1.status = "nan" \/ a2.status = "nan"
                     THEN {RollRecord(c.heap, "nan", <<>>)}
                     ELSE {RollRecord(c.heap, "ok",
                             << Frac(offset, 1), amp1, amp2,
                                Frac(integrateSignalRelative(c.heap, c.sig,
                                        offsetLeft, offsetRight, Center),
                                     amp1.d * amp2.d) >>)}
            : a2 \in rollVal(a1.heap, P, E, den, roll2) }
          : a1 \in rollVal(h, P, E, den, roll1) }

----------------------------------------------------------------------------
(* The numeric core as a state machine: a template signal and a normalized *)
(* distribution are loaded once; every call works on them (and on arrays   *)
(* the caller passes), and the arrays a call allocates die when it ends.   *)

\* The signals of the model: X strictly increasing on the grid, Y as long as X.
SignalValues ==
    {<<X, Y>> : X \in IncSeqs(GridX, 1, MaxLen), Y \in SeqsOf(Ordinates, 1, MaxLen)}
Signals == {s \in SignalValues : Len(s[1]) = Len(s[2])}

\* The raw tables that can be normalized: E strictly increasing, P >= 0 of
\* the same length, at least 2 points, non-zero integral.
RawTables ==
    {t \in {<<E, P>> : E \in IncSeqs(DistE, 2, MaxDistLen),
                       P \in SeqsOf(Densities, 2, MaxDistLen)} :
        /\ Len(t[1]) = Len(t[2])
        /\ probNormalize(t[1], t[2]).den # 0}

\* The tables a caller can hand to probNormalize, valid or not.
AnyTables ==
    {<<E, P>> : E \in IncSeqs(DistE, 0, MaxDistLen), P \in SeqsOf(Densities, 0, MaxDistLen)}

NoCall == [op |-> "none"]
NoRet == [status |-> "none"]
NoPool == [state |-> "none"]

\* The addresses of the arrays loaded at start.
Roots == 1..4

UtilIdle ==
    /\ tasks = <<>>
    /\ entropy = 0
    /\ ncalls = 0
    /\ pool = NoPool
    /\ result = NoRet
    /\ thr = <<>>

\* The template and the table the model varies the other one against: the
\* unit-step grid around the center, and the flat density on <<0, 1>>.
DefaultSignal == <<[i \in 1..MaxLen |-> GridLo + i - 1], [i \in 1..MaxLen |-> i % 2]>>
DefaultTable == <<(<<0, 1>>), (<<1, 1>>)>>

\* loadExperimentalSignal (util.py line 136) normalizes what it loads.
Init ==
    /\ \E s \in Signals, t \in RawTables :
          LET n == probNormalize(t[1], t[2])
          IN  /\ s = DefaultSignal \/ t = DefaultTable
              /\ heap = <<s[1], s[2], t[1], n.num>>
              /\ dist = [E |-> 3, P |-> 4, den |-> n.den]
    /\ signal = <<1, 2>>
    /\ loaded = heap
    /\ call = NoCall
    /\ ret = NoRet
    /\ UtilIdle

\* The signals a call of composeSignals can be given: the template, or a
\* second signal object B of the caller (at addresses 5, 6).
ComposeSignalsCall ==
    /\ call = NoCall
    /\ \E B \in Signals, which \in {<<1, 1>>, <<1, 2>>, <<2, 1>>, <<2, 2>>},
          offset \in Offsets, amp1 \in Amps, amp2 \in Amps :
          LET h0 == IF which = <<1, 1>> THEN heap ELSE heap \o <<B[1], B[2]>>
              s1 == IF which[1] = 1 THEN signal ELSE <<5, 6>>
              s2 == IF which[2] = 1 THEN signal ELSE <<5, 6>>
              r  == composeSignals(h0, s1, s2, offset, amp1, amp2)
          IN  /\ which = <<1, 1>> => B = <<heap[1], heap[2]>>
              /\ heap' = r.heap
              /\ call' = [op |-> "composeSignals", signal1 |-> s1, signal2 |-> s2,
                          offset |-> offset, amp1 |-> amp1, amp2 |-> amp2, heap0 |-> h0]
              /\ ret' = [status |-> r.status, sig |-> r.sig]
    /\ UNCHANGED <<signal, dist, loaded, utilVars>>

IntegrateSignalCall ==
    /\ call = NoCall
    /\ \E intFrom \in (GridLo - 1)..(GridLo + MaxLen), intTo \in (GridLo - 1)..(GridLo + MaxLen) :
          /\ call' = [op |-> "integrateSignal", intFrom |-> intFrom, intTo |-> intTo,
                      heap0 |-> heap]
          /\ ret' = [status |-> "ok", val |-> integrateSignal(heap, signal, intFrom, intTo)]
    /\ UNCHANGED <<heap, signal, dist, loaded, utilVars>>

IntegrateSignalRelativeCall ==
    /\ call = NoCall
    /\ \E offsetLeft \in RelOffs, offsetRight \in RelOffs, center \in GridX :
          /\ call' = [op |-> "integrateSignalRelative", offsetLeft |-> offsetLeft,
                      offsetRight |-> offsetRight, center |-> center, heap0 |-> heap]
          /\ ret' = [status |-> "ok",
                     val |-> integrateSignalRelative(heap, signal, offsetLeft, offsetRight, center)]
    /\ UNCHANGED <<heap, signal, dist, loaded, utilVars>>

\* np.random.uniform(0, 1): roll / DrawRes, in [0, 1).
RollDraws == 0..(DrawRes - 1)

RollValCall ==
    /\ call = NoCall
    /\ \E roll \in RollDraws :
          \E r \in rollVal(heap, dist.P, dist.E, dist.den, roll) :
             /\ heap' = r.heap
             /\ call' = [op |-> "rollVal", roll |-> roll, heap0 |-> heap]
             /\ ret' = [status |-> r.status, val |-> r.val, lo |-> r.lo, hi |-> r.hi, t |-> r.t]
    /\ UNCHANGED <<signal, dist, loaded, utilVars>>

RollDoubleOverlapCall ==
    /\ call = NoCall
    /\ \E rOff \in OffsetDraws, roll1 \in RollDraws, roll2 \in RollDraws,
          offsetLeft \in RelOffs, offsetRight \in RelOffs :
          \E r \in rollDoubleOverlap(heap, dist.P, dist.E, dist.den, signal,
                                     offsetLeft, offsetRight, rOff, roll1, roll2) :
             /\ heap' = r.heap
             /\ call' = [op |-> "rollDoubleOverlap", rOff |-> rOff, roll1 |-> roll1,
                         roll2 |-> roll2, offsetLeft |-> offsetLeft,
                         offsetRight |-> offsetRight, heap0 |-> heap]
             /\ ret' = [status |-> r.status, rec |-> r.rec]
    /\ UNCHANGED <<signal, dist, loaded, utilVars>>

ProbNormalizeCall ==
    /\ call = NoCall
    /\ \E t \in AnyTables :
          LET r == probNormalize(t[1], t[2])
          IN  /\ call' = [op |-> "probNormalize", E |-> t[1], P |-> t[2], heap0 |-> heap]
              /\ ret' = [status |-> r.status, num |-> r.num, den |-> r.den]
    /\ UNCHANGED <<heap, signal, dist, loaded, utilVars>>

\* The call ends: its result and the arrays it allocated are dropped.
Return ==
    /\ call # NoCall
    /\ heap' = SubSeq(heap, 1, 4)
    /\ call' = NoCall
    /\ ret' = NoRet
    /\ UNCHANGED <<signal, dist, loaded, utilVars>>

Next ==
    \/ ComposeSignalsCall
    \/ IntegrateSignalCall
    \/ IntegrateSignalRelativeCall
    \/ RollValCall
    \/ RollDoubleOverlapCall
    \/ ProbNormalizeCall
    \/ Return

Spec == Init /\ [][Next]_vars

----------------------------------------------------------------------------
(* Claims about the numeric core *)

\* The arguments of the composeSignals call in progress, as they were on entry.
ArgX1 == call.heap0[call.signal1[1]]
ArgY1 == call.heap0[call.signal1[2]]
ArgX2 == call.heap0[call.signal2[1]]
ArgY2 == call.heap0[call.signal2[2]]

\* Some abscissa of signal2, shifted by the offset, falls within signal1's
\* range without being an abscissa of signal1.
OffGrid(X1, X2, offset) ==
    \E j \in 1..Len(X2) :
       /\ \A i \in 1..Len(X1) : X1[i] # X2[j] + offset
       /\ \E i \in 1..Len(X1) : X1[i] <= X2[j] + offset
       /\ \E i \in 1..Len(X1) : X1[i] >= X2[j] + offset

\* C4: composeSignals raises the misalignment error exactly when some
\* abscissa x2 of signal2 gives x1 = x2 + offset within signal1's range that
\* is not an abscissa of signal1.
C4_MisalignmentRaisedIffOffGrid ==
    call.op = "composeSignals" =>
        (ret.status = "RuntimeError" <=> OffGrid(ArgX1, ArgX2, call.offset))

\* A misaligned call whose signal2 also has an aligned and an out-of-range point.
C4_Witness ==
    /\ call.op = "composeSignals"
    /\ ret.status = "RuntimeError"
    /\ call.signal1 # call.signal2
    /\ \E j \in 1..Len(ArgX2) : ArgX2[j] + call.offset \in Range(ArgX1)

\* The ordinate the composition must have at the i-th abscissa of signal1.
ComposedAt(i) ==
    LET hits == {j \in 1..Len(ArgX2) : ArgX2[j] = ArgX1[i] - call.offset}
    IN  IF hits = {}
        THEN call.amp1 * ArgY1[i]
        ELSE call.amp1 * ArgY1[i] + call.amp2 * ArgY2[CHOOSE j \in hits : TRUE]

\* C5: for grid-aligned signals the composition has signal1's abscissa and,
\* at every abscissa x of signal1, amp1*Y1[x] + amp2*Y2[x - offset] when
\* x - offset is an abscissa of signal2 and amp1*Y1[x] otherwise; composing a
\* signal with itself at offset 0 with unit amplitudes doubles it, and a
\* signal2 shifted wholly outside signal1's range leaves amp1 * signal1.
C5_ComposePointwise ==
    (call.op = "composeSignals" /\ ~OffGrid(ArgX1, ArgX2, call.offset)) =>
        /\ ret.status = "ok"
        /\ heap[ret.sig[1]] = ArgX1
        /\ Len(heap[ret.sig[2]]) = Len(ArgX1)
        /\ \A i \in 1..Len(ArgX1) : heap[ret.sig[2]][i] = ComposedAt(i)
        /\ (call.signal1 = call.signal2 /\ call.offset = 0 /\ call.amp1 = 1 /\ call.amp2 = 1)
              => heap[ret.sig[2]] = [i \in 1..Len(ArgY1) |-> 2 * ArgY1[i]]
        /\ (\A j \in 1..Len(ArgX2) :
               \/ \A i \in 1..Len(ArgX1) : ArgX2[j] + call.offset < ArgX1[i]
               \/ \A i \in 1..Len(ArgX1) : ArgX2[j] + call.offset > ArgX1[i])
              => heap[ret.sig[2]] = [i \in 1..Len(ArgY1) |-> call.amp1 * ArgY1[i]]

\* Two different signals composed with a shift: a point of signal1 that
\* receives a non-zero contribution and a point that receives none.
C5_Witness ==
    /\ call.op = "composeSignals"
    /\ ret.status = "ok"
    /\ call.signal1 # call.signal2
    /\ call.offset # 0
    /\ \E i \in 1..Len(ArgX1) :
          /\ ArgY1[i] # 0
          /\ \E j \in 1..Len(ArgX2) : ArgX2[j] = ArgX1[i] - call.offset /\ ArgY2[j] # 0
    /\ \E i \in 1..Len(ArgX1) : \A j \in 1..Len(ArgX2) : ArgX2[j] # ArgX1[i] - call.offset

\* C6: the template signal and the distribution tables are never changed by
\* a call, and neither is any array a call was given: every array that
\* existed on entry has its content on entry.
C6_InputsUnchanged ==
    /\ \A a \in Roots : heap[a] = loaded[a]
    /\ call # NoCall => \A a \in 1..Len(call.heap0) : heap[a] = call.heap0[a]

\* A composition of the template with itself (one object as both arguments)
\* that wrote contributions into its result.
C6_Witness ==
    /\ call.op = "composeSignals"
    /\ call.signal1 = signal
    /\ call.signal2 = signal
    /\ ret.status = "ok"
    /\ heap[ret.sig[2]] # heap[signal[2]]

\* C7: rollVal completes for every table and every draw, with t in [0, 1]
\* and the value within [E[0], E[last]].
C7_RollValTotal ==
    call.op = "rollVal" =>
        /\ ret.status = "ok"
        /\ ret.t.d > 0 /\ 0 <= ret.t.n /\ ret.t.n <= ret.t.d
        /\ heap[dist.E][1] * ret.val.d <= ret.val.n
        /\ ret.val.n <= heap[dist.E][Len(heap[dist.E])] * ret.val.d

\* The trapezoidal integral of P over E, doubled, over the points both have.
TwiceIntegral(E, P) ==
    LET n == IF Len(E) < Len(P) THEN Len(E) ELSE Len(P)
    IN  SumSeq([i \in 1..(IF n = 0 THEN 0 ELSE n - 1) |-> (P[i] + P[i + 1]) * (E[i + 1] - E[i])])

\* C8: probNormalize fails with a domain error when the integral is zero,
\* the lengths differ or there are fewer than 2 points, and returns P / I
\* otherwise.
C8_ProbNormalizeDomain ==
    call.op = "probNormalize" =>
        IF Len(call.E) # Len(call.P) \/ Len(call.E) < 2 \/ TwiceIntegral(call.E, call.P) = 0
        THEN ret.status = "DomainError"
        ELSE /\ ret.status = "ok"
             /\ ret.den = TwiceIntegral(call.E, call.P)
             /\ ret.num = [i \in 1..Len(call.P) |-> 2 * call.P[i]]

\* The template is an integer grid: consecutive channels.
IntegerGrid(X) == \A i \in 1..(Len(X) - 1) : X[i + 1] = X[i] + 1

\* The integral the record of a double-overlap roll must hold, over the
\* common denominator of the two amplitudes.
ExpectedIntegral(X, Y, offset, amp1, amp2, intFrom, intTo) ==
    SumSeq([i \in 1..Len(X) |->
        IF X[i] >= intFrom /\ X[i] <= intTo
        THEN LET hits == {j \in 1..Len(X) : X[j] = X[i] - offset}
             IN  amp1.n * amp2.d * Y[i]
                 + (IF hits = {} THEN 0 ELSE amp2.n * amp1.d * Y[CHOOSE j \in hits : TRUE])
        ELSE 0])

\* C9: on an integer-grid template every rollDoubleOverlap call returns the
\* record <<offset, amp1, amp2, integral>> with an integer offset in 0..42
\* and the integral of the composition over [9 - offsetLeft, 9 + offsetRight].
C9_RollRecord ==
    (call.op = "rollDoubleOverlap" /\ IntegerGrid(heap[signal[1]])) =>
        /\ ret.status = "ok"
        /\ Len(ret.rec) = 4
        /\ ret.rec[1].d = 1 /\ ret.rec[1].n \in 0..42
        /\ ret.rec[4].d = ret.rec[2].d * ret.rec[3].d
        /\ ret.rec[4].n = ExpectedIntegral(heap[signal[1]], heap[signal[2]], ret.rec[1].n,
                              ret.rec[2], ret.rec[3],
                              Center - call.offsetLeft, Center + call.offsetRight)

\* The part of C9 that does not rest on rollVal: when both amplitude draws
\* succeed, the call returns the record described.
C9_RecordWhenDrawsSucceed ==
    (call.op = "rollDoubleOverlap" /\ IntegerGrid(heap[signal[1]])
        /\ ret.status \notin Raised \cup {"nan"})
      => C9_RollRecord

----------------------------------------------------------------------------
(* util.py: the bulk executor *)

\* The state of a random generator: the seed it was last seeded with and the
\* number of draws made since.  Seed 0 is the parent's; a forked worker
\* starts with a copy of it.
ParentRng == [seed |-> 0, pos |-> 0]

\* np.random.seed() with no argument: a state seeded from fresh OS entropy,
\* the (ent + 1)-th draw of it.
SeedFromEntropy(ent) == [seed |-> ent + 1, pos |-> 0]

\* np.random.uniform inside a function compiled with @njit (rollVal line 37,
\* rollDoubleOverlap line 92): the draw is made from the process's generator
\* of compiled code, not from the generator np.random.seed() seeds in the
\* interpreter.  A forked process seeds the compiled-code generator from OS
\* entropy at its first draw; later draws continue the stream.
njitDraw(nb, ent) ==
    LET s == IF nb.seed = ParentRng.seed THEN SeedFromEntropy(ent) ELSE nb
    IN  [from |-> s, rng |-> [s EXCEPT !.pos = @ + 1]]

\* The closure `lambda: what(*args)` of a call, with what = bulkRunnerHelper
\* and args = (bulkSize, kernel, ...).
Closure(id, bulkSize, kernel) == [id |-> id, bulkSize |-> bulkSize, kernel |-> kernel]

\* A kernel either never raises ("total") or may raise ("partial").  Like
\* rollVal, a kernel makes its draw first and may raise afterwards.
Kernels == {"total", "partial"}

\* runInParallel, lines 60-61: while len(tasks) > 10: del tasks[0]
RECURSIVE Trim(_)
Trim(q) == IF Len(q) > TrimLen THEN Trim(Tail(q)) ELSE q

\* bulkRunnerHelper evaluating once less.
RECURSIVE bulkRunnerHelperShort(_, _, _, _, _)
bulkRunnerHelperShort(bulkSize, kernel, nb, ent, failAt) ==
    IF bulkSize <= 1
    THEN [status |-> "ok", vals |-> <<>>, evals |-> 0, draws |-> <<>>, rng |-> nb]
    ELSE LET r == bulkRunnerHelperShort(bulkSize - 1, kernel, nb, ent, failAt)
             d == njitDraw(r.rng, ent)
         IN  [status |-> "ok", vals |-> Append(r.vals, d.from), evals |-> r.evals + 1,
              draws |-> Append(r.draws, d.from), rng |-> d.rng]

\* bulkRunnerHelper(bulkSize, what, *args): [ what(*args) for i in
\* range(bulkSize) ], compiled with @njit.  An evaluation draws from the
\* generator of compiled code and returns what it drew; the failAt-th
\* evaluation raises after its draw (0: none does), which only a "partial"
\* kernel can, and the list built so far is lost.  `draws` records the state
\* every evaluation drew from.
RECURSIVE bulkRunnerHelper(_, _, _, _, _)
bulkRunnerHelper(bulkSize, kernel, nb, ent, failAt) ==
    IF bulkSize <= 0
    THEN [status |-> "ok", vals |-> <<>>, evals |-> 0, draws |-> <<>>, rng |-> nb]
    ELSE LET r == bulkRunnerHelper(bulkSize - 1, kernel, nb, ent, failAt)
             d == njitDraw(r.rng, ent)
         IN  IF r.status # "ok"
             THEN r
             ELSE IF kernel = "partial" /\ failAt = bulkSize
             THEN [status |-> "raised", vals |-> <<>>, evals |-> r.evals + 1,
                   draws |-> Append(r.draws, d.from), rng |-> d.rng]
             ELSE [status |-> "ok", vals |-> Append(r.vals, d.from), evals |-> r.evals + 1,
                   draws |-> Append(r.draws, d.from), rng |-> d.rng]

\* A worker process: its copy of the queue, its interpreter generator (np)
\* and its compiled-code generator (nb), all as they were in the parent at
\* the fork.
Forked(queue) == [tasks |-> queue, np |-> ParentRng, nb |-> ParentRng]

\* A task run by worker wk: tasks[idx]() on the worker's copy of the queue
\* (idx counts from 0); IndexError when the copy has no such entry.
RunTask(wk, idx, ent, failAt) ==
    IF idx + 1 > Len(wk.tasks)
    THEN [status |-> "raised", vals |-> <<>>, evals |-> 0, draws |-> <<>>,
          np |-> wk.np, nb |-> wk.nb, id |-> 0]
    ELSE LET c == wk.tasks[idx + 1]
             r == bulkRunnerHelper(c.bulkSize, c.kernel, wk.nb, ent, failAt)
         IN  [status |-> r.status, vals |-> r.vals, evals |-> r.evals, draws |-> r.draws,
              np |-> wk.np, nb |-> r.rng, id |-> c.id]

\* parallelRunner(idx): np.random.seed(); return tasks[idx]()
\* The seeding takes one draw of OS entropy, the task's generator may take
\* the next.
parallelRunner(wk, idx, ent, failAt) ==
    RunTask([wk EXCEPT !.np = SeedFromEntropy(ent)], idx, ent + 1, failAt)

\* pool.map returning the lists of the units that completed.
poolMapPartial(units) ==
    LET RECURSIVE Kept(_)
        Kept(k) == IF k = 0 THEN <<>>
                   ELSE IF units[k].status = "ok" THEN Append(Kept(k - 1), units[k].vals)
                   ELSE Kept(k - 1)
    IN  [status |-> "ok", vals |-> Kept(Len(units))]

\* runInParallel, lines 68-72: pool.map(parallelRunner, [idx] * amount)
\* returns the units' results in order, or raises when a unit raised.
poolMap(units) ==
    IF \E u \in 1..Len(units) : units[u].status = "raised"
    THEN [status |-> "raised", vals |-> <<>>]
    ELSE [status |-> "ok", vals |-> [u \in 1..Len(units) |-> units[u].vals]]

\* runInParallelBulk, lines 102-107: the units' lists, concatenated.
RECURSIVE Flatten(_)
Flatten(lists) == IF lists = <<>> THEN <<>> ELSE lists[1] \o Flatten(Tail(lists))

Pending == [status |-> "pending"]

\* The numeric core does not take part in the executor's model.
NumIdle ==
    /\ heap = <<>>
    /\ signal = <<0, 0>>
    /\ dist = [E |-> 0, P |-> 0, den |-> 0]
    /\ loaded = <<>>
    /\ call = NoCall
    /\ ret = NoRet

\* The queue holds the closures of earlier calls, at most TrimLen + 1 of
\* them: it is empty, at the trimming threshold or one above it.
OldTasks(k) == [i \in 1..k |-> Closure(0 - i, 0, "total")]
OldQueueLens == {0, TrimLen, TrimLen + 1}

InitBulk ==
    /\ NumIdle
    /\ \E k \in OldQueueLens : tasks = OldTasks(k)
    /\ entropy = 0
    /\ ncalls = 0
    /\ pool = NoPool
    /\ result = NoRet
    /\ thr = <<>>

\* runInParallelBulk(bulkNum, bulkSize, poolSize, what, *args) up to the
\* creation of the pool: runInParallel trims the queue, appends the closure
\* at idx and forks poolSize workers, each with a copy of the parent's queue
\* and random state.  The caller has consumed the previous call's result.
RunInParallelBulkCall ==
    /\ pool = NoPool
    /\ ncalls < MaxCalls
    /\ \E bulkNum \in 0..MaxUnits, bulkSize \in 0..MaxBulk, poolSize \in 1..MaxPool,
          kernel \in Kernels :
          LET trimmed == Trim(tasks)
              idx     == Len(trimmed)
              queue   == Append(trimmed, Closure(ncalls + 1, bulkSize, kernel))
          IN  /\ tasks' = queue
              /\ pool' = [state |-> "map", id |-> ncalls + 1, idx |-> idx,
                          amount |-> bulkNum, bulkSize |-> bulkSize, kernel |-> kernel,
                          workers |-> [w \in 1..poolSize |-> Forked(queue)],
                          units |-> [u \in 1..bulkNum |-> Pending]]
    /\ ncalls' = ncalls + 1
    /\ result' = NoRet
    /\ UNCHANGED <<entropy, thr, numVars>>

\* A worker takes the next unit of the pool's task queue and runs
\* parallelRunner(idx) on it.
WorkerRun ==
    /\ pool.state = "map"
    /\ \E w \in 1..Len(pool.workers), u \in 1..Len(pool.units), failAt \in 0..MaxBulk :
          /\ pool.units[u] = Pending
          /\ \A v \in 1..(u - 1) : pool.units[v] # Pending
          /\ failAt > 0 => (pool.kernel = "partial" /\ failAt <= pool.bulkSize)
          /\ LET r == parallelRunner(pool.workers[w], pool.idx, entropy, failAt)
             IN  pool' = [pool EXCEPT
                            !.workers[w].np = r.np,
                            !.workers[w].nb = r.nb,
                            !.units[u] = [status |-> r.status, vals |-> r.vals,
                                          evals |-> r.evals, draws |-> r.draws,
                                          id |-> r.id, worker |-> w]]
    /\ entropy' = entropy + 2
    /\ UNCHANGED <<tasks, ncalls, result, thr, numVars>>

\* Every unit has been run: pool.map returns or raises, the pool is closed
\* and runInParallelBulk flattens what pool.map returned.
BulkReturn ==
    /\ pool.state = "map"
    /\ \A u \in 1..Len(pool.units) : pool.units[u] # Pending
    /\ LET m == poolMap(pool.units)
       IN  result' = [status |-> m.status,
                      vals   |-> IF m.status = "ok" THEN Flatten(m.vals) ELSE <<>>,
                      id |-> pool.id, amount |-> pool.amount, bulkSize |-> pool.bulkSize,
                      kernel |-> pool.kernel, units |-> pool.units]
    /\ pool' = NoPool
    /\ UNCHANGED <<tasks, entropy, ncalls, thr, numVars>>

NextBulk ==
    \/ RunInParallelBulkCall
    \/ WorkerRun
    \/ BulkReturn

SpecBulk == InitBulk /\ [][NextBulk]_vars

----------------------------------------------------------------------------
(* Claims about the bulk executor *)

\* The units of the call in progress, or of the call that just ended.
UnitsSeen ==
    IF pool.state = "map" THEN pool.units
    ELSE IF result.status # "none" THEN result.units
    ELSE <<>>
DoneUnits == {u \in 1..Len(UnitsSeen) : UnitsSeen[u] # Pending}

\* C1: with a kernel that does not raise, runInParallelBulk evaluates the
\* kernel bulkNum * bulkSize times and returns bulkNum * bulkSize results,
\* bulkSize from each unit, whatever the pool size and the workers that ran
\* the units.
C1_BulkCount ==
    (result.status # "none" /\ result.kernel = "total") =>
        /\ result.status = "ok"
        /\ Len(result.vals) = result.amount * result.bulkSize
        /\ SumSeq([u \in 1..Len(result.units) |-> result.units[u].evals])
              = result.amount * result.bulkSize
        /\ Len(result.units) = result.amount
        /\ \A u \in 1..Len(result.units) : Len(result.units[u].vals) = result.bulkSize

\* A run of several units of several evaluations, on more than one worker.
C1_Witness ==
    /\ result.status = "ok"
    /\ result.amount >= 2
    /\ result.bulkSize >= 2
    /\ \E u, v \in 1..Len(result.units) : result.units[u].worker # result.units[v].worker

\* C2: when a unit raised, the call raises and returns no results.
C2_FailureIsWhole ==
    (result.status # "none"
        /\ \E u \in 1..Len(result.units) : result.units[u].status = "raised") =>
        /\ result.status = "raised"
        /\ result.vals = <<>>

\* A call in which one unit raised and another completed with results.
C2_Witness ==
    /\ result.status = "raised"
    /\ \E u, v \in 1..Len(result.units) :
          /\ result.units[u].status = "raised"
          /\ result.units[v].status = "ok"
          /\ result.units[v].vals # <<>>

\* C3: before the first evaluation of every unit the worker reseeds the
\* random source the evaluations draw from: the draws of a unit start at the
\* beginning of a freshly seeded stream, none is made from the state
\* inherited from the parent, and units run by two workers never draw from
\* one state.
C3_WorkersReseed ==
    /\ \A u \in DoneUnits : \A i \in 1..Len(UnitsSeen[u].draws) :
          /\ UnitsSeen[u].draws[i].seed # ParentRng.seed
          /\ UnitsSeen[u].draws[i].pos = i - 1
    /\ \A u, v \in DoneUnits :
          (UnitsSeen[u].worker # UnitsSeen[v].worker
              /\ UnitsSeen[u].draws # <<>> /\ UnitsSeen[v].draws # <<>>)
             => UnitsSeen[u].draws[1].seed # UnitsSeen[v].draws[1].seed

\* What holds of the random sources: a worker that ran a unit has reseeded
\* its interpreter generator, no evaluation draws from a state inherited
\* from the parent, the draws of a worker continue one stream, and two
\* workers never draw from one state.
WorkerStreamsIndependent ==
    /\ \A u \in DoneUnits : \A i \in 1..Len(UnitsSeen[u].draws) :
          UnitsSeen[u].draws[i].seed # ParentRng.seed
    /\ \A u, v \in DoneUnits : \A i \in 1..Len(UnitsSeen[u].draws),
                                  j \in 1..Len(UnitsSeen[v].draws) :
          (UnitsSeen[u].draws[i].seed = UnitsSeen[v].draws[j].seed)
             <=> (UnitsSeen[u].worker = UnitsSeen[v].worker)
    /\ pool.state = "map" =>
          \A u \in DoneUnits : pool.workers[UnitsSeen[u].worker].np.seed # ParentRng.seed

\* With one caller at a time: the queue holds at most TrimLen + 1 closures
\* and every unit ran the closure of its own call.
SequentialQueueAndIndex ==
    /\ Len(tasks) <= TrimLen + 1
    /\ pool.state = "map" =>
          /\ pool.idx + 1 <= Len(tasks)
          /\ \A w \in 1..Len(pool.workers) : pool.workers[w].tasks[pool.idx + 1].id = pool.id
          /\ \A u \in DoneUnits : UnitsSeen[u].id = pool.id

----------------------------------------------------------------------------
(* util.py: runInParallel called from several threads.  Each statement of  *)
(* lines 60-72 is a step of its thread; the threads share `tasks`.         *)

IdleThread == [pc |-> "idle", idx |-> 0, amount |-> 0, size |-> 0,
               snaps |-> <<>>, ran |-> <<>>, outcome |-> "none"]

InitRace ==
    /\ NumIdle
    /\ \E k \in OldQueueLens : tasks = OldTasks(k)
    /\ entropy = 0
    /\ ncalls = 0
    /\ pool = NoPool
    /\ result = NoRet
    /\ thr = [t \in 1..RaceThreads |-> IdleThread]

\* A thread calls runInParallel(amount, poolSize, what, *args).
RaceEnter(t) ==
    /\ thr[t].pc = "idle"
    /\ \E amount \in 0..MaxUnits, poolSize \in 1..MaxPool :
          thr' = [thr EXCEPT ![t].pc = "trim", ![t].amount = amount, ![t].size = poolSize]
    /\ UNCHANGED <<tasks, entropy, ncalls, pool, result, numVars>>

\* Line 60: while len(tasks) > 10
RaceTrim(t) ==
    /\ thr[t].pc = "trim"
    /\ thr' = [thr EXCEPT ![t].pc = IF Len(tasks) > TrimLen THEN "del" ELSE "idx"]
    /\ UNCHANGED <<tasks, entropy, ncalls, pool, result, numVars>>

\* Line 61: del tasks[0]
RaceDel(t) ==
    /\ thr[t].pc = "del"
    /\ IF tasks = <<>>
       THEN /\ thr' = [thr EXCEPT ![t].pc = "done", ![t].outcome = "IndexError"]
            /\ UNCHANGED tasks
       ELSE /\ tasks' = Tail(tasks)
            /\ thr' = [thr EXCEPT ![t].pc = "trim"]
    /\ UNCHANGED <<entropy, ncalls, pool, result, numVars>>

\* Line 64: idx = len(tasks)
RaceIdx(t) ==
    /\ thr[t].pc = "idx"
    /\ thr' = [thr EXCEPT ![t].pc = "append", ![t].idx = Len(tasks)]
    /\ UNCHANGED <<tasks, entropy, ncalls, pool, result, numVars>>

\* Line 65: tasks.append(lambda: what(*args))
RaceAppend(t) ==
    /\ thr[t].pc = "append"
    /\ tasks' = Append(tasks, Closure(t, 1, "total"))
    /\ thr' = [thr EXCEPT ![t].pc = "fork"]
    /\ UNCHANGED <<entropy, ncalls, pool, result, numVars>>

\* Line 68: Pool(poolSize) forks its workers one after the other; each gets
\* a copy of the queue as it is at that moment.
RaceFork(t) ==
    /\ thr[t].pc = "fork"
    /\ LET snaps == Append(thr[t].snaps, Forked(tasks))
       IN  thr' = [thr EXCEPT ![t].snaps = snaps,
                              ![t].pc = IF Len(snaps) = thr[t].size THEN "map" ELSE "fork"]
    /\ UNCHANGED <<tasks, entropy, ncalls, pool, result, numVars>>

\* Lines 69-72: pool.map hands out `amount` units; whichever worker of the
\* pool is free takes the next one and runs parallelRunner(idx).
RaceRun(t) ==
    /\ thr[t].pc = "map"
    /\ Len(thr[t].ran) < thr[t].amount
    /\ \E w \in 1..thr[t].size :
          LET r == parallelRunner(thr[t].snaps[w], thr[t].idx, entropy, 0)
          IN  thr' = [thr EXCEPT
                        ![t].snaps[w].np = r.np,
                        ![t].snaps[w].nb = r.nb,
                        ![t].ran = Append(@, [status |-> r.status, id |-> r.id, worker |-> w])]
    /\ entropy' = entropy + 2
    /\ UNCHANGED <<tasks, ncalls, pool, result, numVars>>

\* Lines 69-72: every unit has been run; pool.map returns the results or
\* raises what a unit raised, and the pool is closed.
RaceReturn(t) ==
    /\ thr[t].pc = "map"
    /\ Len(thr[t].ran) = thr[t].amount
    /\ thr' = [thr EXCEPT ![t].pc = "done",
                          ![t].outcome = poolMap([u \in 1..Len(thr[t].ran) |->
                                            [status |-> thr[t].ran[u].status, vals |-> <<>>]]).status]
    /\ UNCHANGED <<tasks, entropy, ncalls, pool, result, numVars>>

NextRace ==
    \E t \in 1..RaceThreads :
       \/ RaceEnter(t)
       \/ RaceTrim(t)
       \/ RaceDel(t)
       \/ RaceIdx(t)
       \/ RaceAppend(t)
       \/ RaceFork(t)
       \/ RaceRun(t)
       \/ RaceReturn(t)

SpecRace == InitRace /\ [][NextRace]_vars

\* No thread is between line 60 and line 65.
QueueAtRest == \A t \in 1..Len(thr) : thr[t].pc \in {"idle", "fork", "map", "done"}

\* C10: the queue holds at most 11 closures once the calls have appended,
\* and the index a call hands to its workers denotes, in each worker's copy
\* of the queue, the closure that call appended, also when two calls
\* interleave.
C10_QueueAndIndex ==
    /\ QueueAtRest => Len(tasks) <= TrimLen + 1
    /\ \A t \in 1..Len(thr) :
          /\ thr[t].outcome \in {"none", "ok"}
          /\ \A w \in 1..Len(thr[t].snaps) :
                /\ thr[t].idx + 1 <= Len(thr[t].snaps[w].tasks)
                /\ thr[t].snaps[w].tasks[thr[t].idx + 1].id = t
          /\ \A u \in 1..Len(thr[t].ran) :
                thr[t].ran[u].status = "ok" /\ thr[t].ran[u].id = t

====
